---- MODULE Spec2Model ----
(***************************************************************************)
(* A model of the DEFLATE inflater of chameleon                            *)
(* (src/src/compression/inflate.rs, src/src/compression/prefix.rs).        *)
(*                                                                         *)
(* DeflateStream::decompress is modelled as a state machine: one action    *)
(* per block header, per stored block, per decoded symbol of a fixed or    *)
(* dynamic block, per decoded code-length symbol and per iteration of the  *)
(* distance loop.  The compressed input is drawn in Init from streams of   *)
(* up to MaxBlocks blocks, optionally truncated by up to MaxCut bytes.     *)
(***************************************************************************)
EXTENDS Integers, Sequences, FiniteSets, TLC

\* ------------------------------------------------------------------ bounds
MaxBlocks == 2
MaxCut == 1
MaxCalls == 2
MaxSyms == 4      \* symbols of a length vector handed to from_lengths alone
MaxCodeLen == 3   \* the longest code length of such a vector
MaxRow == 2       \* bytes of a row handed to a defilter alone
MaxBpp == 2       \* bytes per pixel of such a row
MaxRows == 2      \* scanlines of an image
MaxWidth == 1     \* pixels of a scanline of an image

\* ------------------------------------------------------- prefix.rs tables
LENGTH_EXTRA_BITS ==
  <<0, 0, 0, 0, 0, 0, 0, 0, 1, 1, 1, 1, 2, 2, 2, 2, 3, 3, 3, 3, 4, 4, 4, 4,
    5, 5, 5, 5, 0>>

LENGTH_BASE ==
  <<3, 4, 5, 6, 7, 8, 9, 10, 11, 13, 15, 17, 19, 23, 27, 31, 35, 43, 51, 59,
    67, 83, 99, 115, 131, 163, 195, 227, 258>>

DISTANCE_EXTRA_BITS ==
  <<0, 0, 0, 0, 1, 1, 2, 2, 3, 3, 4, 4, 5, 5, 6, 6, 7, 7, 8, 8, 9, 9, 10, 10,
    11, 11, 12, 12, 13, 13>>

DISTANCE_BASE ==
  <<1, 2, 3, 4, 5, 7, 9, 13, 17, 25, 33, 49, 65, 97, 129, 193, 257, 385, 513,
    769, 1025, 1537, 2049, 3073, 4097, 6145, 8193, 12289, 16385, 24577>>

\* FIXED_CODE_LENGTHS[s + 1] is the code length of literal/length symbol s.
FIXED_CODE_LENGTHS ==
  [i \in 1..288 |-> IF i <= 144 THEN 8
                    ELSE IF i <= 256 THEN 9
                    ELSE IF i <= 280 THEN 7 ELSE 8]

\* --------------------------------------------------------------- integers
Min(a, b) == IF a < b THEN a ELSE b

SetMax(S) == CHOOSE x \in S : \A y \in S : y <= x

\* The absent value of an Option<usize>.
None == -1

\* iter.fold(0uW, |acc, bit| (acc << 1) | bit): the bits folded MSB-first
\* into a W-bit accumulator.
RECURSIVE FoldFrom(_, _, _, _)
FoldFrom(bits, k, acc, W) ==
  IF k > Len(bits) THEN acc
  ELSE FoldFrom(bits, k + 1, (acc * 2 + bits[k]) % (2 ^ W), W)

Fold(bits, W) == FoldFrom(bits, 1, 0, W)

\* uW::reverse_bits.
RECURSIVE ReverseFrom(_, _, _)
ReverseFrom(x, W, i) ==
  IF i = W THEN 0
  ELSE ((x \div (2 ^ i)) % 2) * (2 ^ (W - 1 - i)) + ReverseFrom(x, W, i + 1)

ReverseBits(x, W) == ReverseFrom(x, W, 0)

\* The field without reverse_bits and the shift: the accumulator as folded.
ReadFieldAsFolded(bits, W, n) == Fold(bits, W)

\* fold(..).reverse_bits() >> (W - n): an n-bit field read into a W-bit word.
ReadField(bits, W, n) == ReverseBits(Fold(bits, W), W) \div (2 ^ (W - n))

\* ------------------------------------------------------------ BitVector64
\* The bit reader over the compressed bytes: the k-th bit it yields is bit
\* (k mod 8) of byte k / 8, and it yields nothing once the bytes are used up.
BitAt(buf, k) == (buf[(k \div 8) + 1] \div (2 ^ (k % 8))) % 2

BitLen(buf) == 8 * Len(buf)

\* by_ref().take(n) from cursor i: the bits that are left, at most n of them.
Take(buf, i, n) ==
  [j \in 1..Min(n, BitLen(buf) - i) |-> BitAt(buf, i + j - 1)]

\* The cursor after by_ref().take(n) (or .skip(n)) from cursor i.
Advance(buf, i, n) == Min(i + n, BitLen(buf))

\* ------------------------------------------------------------------- Code
CodeNew == [buffer |-> 0, length |-> 0]

\* Code::push_bit: buffer is a u16, so the shift drops bit 15.
push_bit(c, bit) ==
  [buffer |-> (c.buffer * 2 + bit) % 65536, length |-> c.length + 1]

\* ---------------------------------------------------------- PrefixCodeMap
\* PrefixCodeMap::from_lengths over the length vector L (L[s + 1] is the
\* length of symbol s).  The map is held as the set of its entries
\* <<buffer, length, symbol>>.

\* next_code[i]: code = (code + occurances[i - 1]) << 1 in u16, with
\* occurances[0] set to 0.
RECURSIVE NextCode(_, _)
NextCode(occurances, i) ==
  IF i = 1 THEN 0
  ELSE ((NextCode(occurances, i - 1) + occurances[i - 1]) * 2) % 65536

\* map.insert(code_struct, index) in ascending index: of the entries with an
\* equal key (buffer, length) the map keeps the one inserted last.
Inserted(entries) ==
  {e \in entries :
     \A f \in entries : (f[1] = e[1] /\ f[2] = e[2]) => f[3] <= e[3]}

\* from_lengths without `if len != 0`: a symbol of length 0 gets an entry too,
\* the empty code.
from_lengths_ZeroLengthsCoded(L) ==
  LET present == {j \in DOMAIN L : L[j] # 0}
      max_length == SetMax({L[j] : j \in DOMAIN L})
      occurances ==
        [k \in 1..max_length |-> Cardinality({j \in present : L[j] = k})] \o <<>>
      next_code == [k \in 1..max_length |-> NextCode(occurances, k)] \o <<>>
  IN Inserted({<<IF L[j] = 0 THEN 0
                 ELSE (next_code[L[j]]
                       + Cardinality({i \in present : i < j /\ L[i] = L[j]})) % 65536,
                 L[j], j - 1>> : j \in DOMAIN L})

\* from_lengths without `next_code[len] += 1`: the symbols of one length all
\* get the first code of that length.
from_lengths_NoIncrement(L) ==
  LET present == {j \in DOMAIN L : L[j] # 0}
      max_length == SetMax({L[j] : j \in DOMAIN L})
      occurances ==
        [k \in 1..max_length |-> Cardinality({j \in present : L[j] = k})] \o <<>>
      next_code == [k \in 1..max_length |-> NextCode(occurances, k)] \o <<>>
  IN Inserted({<<next_code[L[j]], L[j], j - 1>> : j \in present})

from_lengths(L) ==
  LET present == {j \in DOMAIN L : L[j] # 0}
      max_length == SetMax({L[j] : j \in DOMAIN L})
      occurances ==
        [k \in 1..max_length |-> Cardinality({j \in present : L[j] = k})] \o <<>>
      next_code == [k \in 1..max_length |-> NextCode(occurances, k)] \o <<>>
  IN Inserted({<<(next_code[L[j]]
                  + Cardinality({i \in present : i < j /\ L[i] = L[j]})) % 65536,
                 L[j], j - 1>> : j \in present})

\* map.get(&code): the symbol of the code, or None.
MapGet(map, c) ==
  LET hits == {e \in map : e[1] = c.buffer /\ e[2] = c.length}
  IN IF hits = {} THEN None ELSE (CHOOSE e \in hits : TRUE)[3]

FixedCodeMap == from_lengths(FIXED_CODE_LENGTHS)

\* decode: push bits from cursor i onto code c until the map holds the code
\* or the reader is exhausted (sym = None).
RECURSIVE DecodeFrom(_, _, _, _)
DecodeFrom(map, buf, i, c) ==
  IF i >= BitLen(buf) THEN [sym |-> None, idx |-> i, code |-> c]
  ELSE LET c2 == push_bit(c, BitAt(buf, i))
           s == MapGet(map, c2)
       IN IF s # None THEN [sym |-> s, idx |-> i + 1, code |-> CodeNew]
          ELSE DecodeFrom(map, buf, i + 1, c2)

\* ----------------------------------------------------------- input streams
\* The compressed inputs: DEFLATE streams assembled from a menu of blocks by
\* the encoding rules of RFC 1951, then cut short by whole bytes.
MsbBits(v, n) == [i \in 1..n |-> (v \div (2 ^ (n - i))) % 2]

LsbBits(v, n) == [i \in 1..n |-> (v \div (2 ^ (i - 1))) % 2]

Zeros(n) == [i \in 1..n |-> 0]

RECURSIVE Flatten(_)
Flatten(ss) == IF ss = <<>> THEN <<>> ELSE Head(ss) \o Flatten(Tail(ss))

\* RFC 1951 3.2.6: the fixed code of literal/length symbol s, MSB first.
FixedCode(s) ==
  IF s <= 143 THEN MsbBits(48 + s, 8)
  ELSE IF s <= 255 THEN MsbBits(400 + (s - 144), 9)
  ELSE IF s <= 279 THEN MsbBits(s - 256, 7)
  ELSE MsbBits(192 + (s - 280), 8)

\* The dynamic blocks share one literal/length code: symbols 65, 256, 257, 285
\* with the 2-bit codes 00, 01, 10, 11 (HLIT = 29).  Their distance codes are
\*   "dynamic"     symbol 0 with the 1-bit code 0 (HDIST = 0);
\*   "dynamic_d2"  symbols 0, 1, 2 with the codes 0, 10, 11 (HDIST = 2);
\*   "dynamic_d0"  no symbol: the one distance length is 0 (HDIST = 0).
\* A "dynamic_r16" block has a header whose first code-length symbol is 16,
\* the repeat of a previous length, and nothing after it.
DynTypes == {"dynamic", "dynamic_d2", "dynamic_d0", "dynamic_r16"}

\* The header from HLIT to the last code length.
DynTableBits(type) ==
  IF type = "dynamic" THEN
  <<1, 0, 1, 1, 1, 0, 0, 0, 0, 0, 0, 1, 1, 1, 0, 0, 0, 0, 0, 0, 1, 0, 0, 0, 0,
    0, 0, 0, 0, 0, 0, 0, 0, 0, 0, 0, 0, 0, 0, 0, 0, 0, 0, 0, 0, 0, 0, 0, 0, 0,
    0, 0, 0, 0, 0, 0, 0, 0, 0, 0, 1, 0, 0, 0, 0, 0, 1, 0, 0, 0, 1, 1, 0, 1, 1,
    0, 1, 1, 0, 1, 1, 1, 1, 1, 1, 1, 0, 1, 0, 0, 1, 0, 1, 0, 1, 1, 1, 1, 0, 0,
    0, 0, 0, 1, 0, 0, 1, 1, 1, 0>>
  ELSE IF type = "dynamic_d2" THEN
  <<1, 0, 1, 1, 1, 0, 1, 0, 0, 0, 0, 1, 1, 1, 0, 0, 0, 1, 1, 0, 1, 0, 0, 0, 0,
    0, 0, 0, 0, 0, 0, 0, 0, 0, 0, 0, 0, 0, 0, 0, 0, 0, 0, 0, 0, 0, 0, 0, 0, 0,
    0, 0, 0, 0, 0, 0, 0, 0, 0, 0, 1, 0, 0, 0, 0, 1, 1, 0, 0, 0, 1, 1, 0, 1, 1,
    0, 1, 0, 0, 1, 1, 1, 1, 1, 1, 1, 0, 1, 0, 0, 1, 0, 1, 0, 1, 0, 1, 0, 0, 0,
    0, 0, 0, 1, 0, 0, 1, 0, 1, 1, 0, 1, 0, 1, 0>>
  ELSE IF type = "dynamic_d0" THEN
  <<1, 0, 1, 1, 1, 0, 0, 0, 0, 0, 0, 0, 1, 1, 0, 0, 0, 0, 0, 0, 1, 0, 0, 0, 1,
    0, 0, 0, 0, 0, 0, 0, 0, 0, 0, 0, 0, 0, 0, 0, 0, 0, 0, 0, 0, 0, 0, 0, 0, 0,
    0, 0, 0, 0, 0, 0, 0, 0, 0, 0, 1, 0, 0, 0, 1, 1, 0, 1, 1, 0, 1, 1, 0, 1, 1,
    1, 1, 1, 1, 1, 0, 1, 0, 0, 1, 0, 1, 0, 1, 1, 1, 1, 0, 0, 0, 0, 0, 1, 0, 0,
    1, 1, 1, 0>>
  ELSE
  <<0, 0, 0, 0, 0, 0, 0, 0, 0, 0, 0, 0, 0, 0, 1, 0, 0, 0, 0, 0, 1, 0, 0, 0, 0,
    0, 0, 0, 0>>

DynCode(s) ==
  IF s = 65 THEN <<0, 0>>
  ELSE IF s = 256 THEN <<0, 1>>
  ELSE IF s = 257 THEN <<1, 0>>
  ELSE <<1, 1>>

DynDistCode(type, d) ==
  IF type = "dynamic_d2"
  THEN (IF d = 0 THEN <<0>> ELSE IF d = 1 THEN <<1, 0>> ELSE <<1, 1>>)
  ELSE <<0>>

\* The tokens of a compressed block.
Lit(b) == [k |-> "lit", sym |-> b, lext |-> 0, dsym |-> 0, dext |-> 0, bits |-> <<>>]

Ref(s, le, d, de) ==
  [k |-> "ref", sym |-> s, lext |-> le, dsym |-> d, dext |-> de, bits |-> <<>>]

Eob == [k |-> "eob", sym |-> 256, lext |-> 0, dsym |-> 0, dext |-> 0, bits |-> <<>>]

\* A length symbol followed by the given bits in place of a distance code.
Cut(s, bs) == [k |-> "cut", sym |-> s, lext |-> 0, dsym |-> 0, dext |-> 0, bits |-> bs]

TokenBits(type, t) ==
  LET code == IF type = "fixed" THEN FixedCode(t.sym) ELSE DynCode(t.sym)
  IN IF t.k = "ref"
     THEN code \o LsbBits(t.lext, LENGTH_EXTRA_BITS[t.sym - 256])
          \o (IF type = "fixed" THEN MsbBits(t.dsym, 5) ELSE DynDistCode(type, t.dsym))
          \o LsbBits(t.dext, DISTANCE_EXTRA_BITS[t.dsym + 1])
     ELSE code \o t.bits

Body(type, data, toks) == [type |-> type, data |-> data, toks |-> toks]

Menu ==
  { Body("stored", <<72, 105>>, <<>>),
    Body("fixed", <<>>, <<Lit(97), Eob>>),
    Body("fixed", <<>>, <<Lit(97), Ref(259, 0, 0, 0), Eob>>),
    Body("fixed", <<>>, <<Ref(257, 0, 0, 0), Eob>>),
    Body("reserved", <<>>, <<>>),
    Body("dynamic", <<>>, <<Lit(65), Ref(257, 0, 0, 0), Eob>>),
    Body("dynamic", <<>>, <<Lit(65), Ref(285, 0, 0, 0), Eob>>),
    Body("dynamic", <<>>, <<Lit(65), Cut(257, <<1, 1, 1>>)>>) }

\* Streams around the edges of the symbol alphabets and of the code tables.
EdgeMenu ==
  { Body("stored", <<72, 105>>, <<>>),
    Body("fixed", <<>>, <<Lit(97), Eob>>),
    Body("fixed", <<>>, <<Lit(97), Cut(286, <<>>), Eob>>),
    Body("fixed", <<>>, <<Cut(287, <<>>), Lit(97), Eob>>),
    Body("dynamic_d2", <<>>, <<Lit(65), Lit(65), Ref(257, 0, 1, 0), Eob>>),
    Body("dynamic_d2", <<>>, <<Lit(65), Lit(65), Lit(65), Ref(257, 0, 2, 0), Eob>>),
    Body("dynamic_d0", <<>>, <<Lit(65), Lit(65), Eob>>),
    Body("dynamic_r16", <<>>, <<>>) }

\* The bits of block b, whose header starts at bit pos of the stream.
BlockBits(b, bfinal, pos) ==
  IF b.type = "stored"
  THEN <<bfinal, 0, 0>> \o Zeros((8 - ((pos + 3) % 8)) % 8)
       \o LsbBits(Len(b.data), 16) \o LsbBits(65535 - Len(b.data), 16)
       \o Flatten([i \in 1..Len(b.data) |-> LsbBits(b.data[i], 8)])
  ELSE IF b.type = "fixed"
  THEN <<bfinal, 1, 0>> \o Flatten([i \in 1..Len(b.toks) |-> TokenBits("fixed", b.toks[i])])
  ELSE IF b.type \in DynTypes
  THEN <<bfinal, 0, 1>> \o DynTableBits(b.type)
       \o Flatten([i \in 1..Len(b.toks) |-> TokenBits(b.type, b.toks[i])])
  ELSE <<bfinal, 1, 1>>

\* The bits of blocks 1..k of a stream whose block finalAt carries BFINAL = 1.
RECURSIVE StreamBits(_, _, _)
StreamBits(blocks, finalAt, k) ==
  IF k = 0 THEN <<>>
  ELSE LET before == StreamBits(blocks, finalAt, k - 1)
       IN before \o BlockBits(blocks[k], IF k = finalAt THEN 1 ELSE 0, Len(before))

Pack(bits) ==
  LET padded == bits \o Zeros((8 - (Len(bits) % 8)) % 8)
  IN [b \in 1..(Len(padded) \div 8) |->
        padded[8 * b - 7] + 2 * padded[8 * b - 6] + 4 * padded[8 * b - 5]
        + 8 * padded[8 * b - 4] + 16 * padded[8 * b - 3] + 32 * padded[8 * b - 2]
        + 64 * padded[8 * b - 1] + 128 * padded[8 * b]]

Compress(blocks, finalAt, cut) ==
  LET bytes == Pack(StreamBits(blocks, finalAt, Len(blocks)))
  IN SubSeq(bytes, 1, Len(bytes) - Min(cut, Len(bytes)))

\* ------------------------------------------------------------------ state
VARIABLES
  compressed,       \* DeflateStream.compressed: the input bytes
  overflow_checks,  \* the build: integer overflow panics (debug) or wraps (release)
  decompressed,     \* DeflateStream.decompressed
  idx,              \* DeflateStream.bitstream.idx: the bit cursor
  finished,         \* DeflateStream.finished
  pc,               \* where decompress stands
  calls,            \* calls of decompress so far
  result,           \* outcome of the latest call
  ret,              \* the Vec of the latest call's Ok
  output,           \* fixed() / dynamic(): the block's output
  hlit,             \* dynamic()
  hdist,            \* dynamic()
  code_length_map,  \* dynamic()
  code_lengths,     \* dynamic()
  code_buf,         \* dynamic(): the code of the code-length loop
  ll,               \* dynamic(): literal/length map
  dist,             \* dynamic(): distance map
  length,           \* dynamic(): length of the back-reference being decoded
  stream,           \* history: the blocks the input was assembled from
  hdrs,             \* history: the block headers read
  ranOut,           \* history: a read found the bit reader exhausted
  lastStore,        \* history: the latest run of store()
  lastCopy,         \* history: the latest back-reference
  lastSym,          \* history: the latest literal/length symbol decoded
  returns,          \* history: how the calls before the latest one ended
  prefix_lengths,   \* PrefixCodeMap::from_lengths: code_lengths, when called alone
  prefix_map,       \* PrefixCodeMap::from_lengths: the map, once it has returned
  bpp,              \* Png::rgb: bytes per pixel
  scanlines,        \* Png::rgb: the rows of the inflated data, filter byte first
  row,              \* Png::rgb: scanlines taken by the loop so far
  last,             \* Png::rgb: the prior row
  defiltered_scanlines, \* Png::rgb
  rgb_pc,           \* where Png::rgb stands
  pixels,           \* Png::rgb: its output
  lastRow,          \* history: the latest turn of the scanline loop
  raw,              \* history: the row a Paeth scanline was filtered from
  field_bits,       \* a bit field read alone: the bits take(N) yields
  field_W,          \* the width of the accumulator they are folded into
  field_value       \* the value read from them, or None before the read

given == <<compressed, overflow_checks>>
fields == <<given, decompressed, idx, finished>>
control == <<pc, calls, result, ret>>
dynlocals == <<hlit, hdist, code_length_map, code_lengths, code_buf, ll, dist, length>>
history == <<stream, hdrs, ranOut, lastStore, lastCopy, lastSym>>
prefix == <<prefix_lengths, prefix_map>>
png == <<bpp, scanlines, row, last, defiltered_scanlines, rgb_pc, pixels, lastRow, raw>>
field == <<field_bits, field_W, field_value>>
units == <<prefix, png, field>>
inflater == <<fields, control, output, dynlocals, history, returns>>
vars == <<inflater, units>>

NoStore == [valid |-> FALSE, hdrEnd |-> 0, outcome |-> "none", len |-> 0,
            byte_idx |-> 0, copied |-> <<>>, idxAfter |-> 0]

NoCopy == [valid |-> FALSE, in |-> "none", window |-> <<>>, before |-> <<>>,
           table |-> {}, codeAt |-> 0, codeEnd |-> 0, dsym |-> 0,
           length |-> 0, distance |-> 0, after |-> <<>>, outcome |-> "none"]

NoSym == [valid |-> FALSE, in |-> "none", sym |-> 0, as |-> "none", idx |-> 0]

NoMap == [built |-> FALSE, map |-> {}]

NoRow == [valid |-> FALSE, filter |-> 0, scanline |-> <<>>, last |-> <<>>,
          bpp |-> 0, pushed |-> FALSE, out |-> <<>>, panic |-> FALSE]

\* No call of from_lengths alone.
PrefixIdle ==
  /\ prefix_lengths = <<>>
  /\ prefix_map = NoMap

\* No Png::rgb under way.
PngIdle ==
  /\ bpp = 0
  /\ scanlines = <<>>
  /\ row = 0
  /\ last = <<>>
  /\ defiltered_scanlines = <<>>
  /\ rgb_pc = "idle"
  /\ pixels = <<>>
  /\ lastRow = NoRow
  /\ raw = <<>>

\* No bit field read alone.
FieldIdle ==
  /\ field_bits = <<>>
  /\ field_W = 0
  /\ field_value = None

UnitsIdle == PrefixIdle /\ PngIdle /\ FieldIdle

\* No DeflateStream: the state of the specifications of from_lengths and of
\* Png::rgb taken alone, which differ in the build only.
NoInflater ==
  /\ stream = [blocks |-> <<>>, finalAt |-> 0, cut |-> 0]
  /\ compressed = <<>>
  /\ overflow_checks \in BOOLEAN
  /\ decompressed = <<>>
  /\ idx = 0
  /\ finished = FALSE
  /\ pc = "idle"
  /\ calls = MaxCalls
  /\ result = "None"
  /\ ret = <<>>
  /\ output = <<>>
  /\ hlit = 0
  /\ hdist = 0
  /\ code_length_map = {}
  /\ code_lengths = <<>>
  /\ code_buf = CodeNew
  /\ ll = {}
  /\ dist = {}
  /\ length = 0
  /\ hdrs = <<>>
  /\ ranOut = FALSE
  /\ lastStore = NoStore
  /\ lastCopy = NoCopy
  /\ lastSym = NoSym
  /\ returns = <<>>

\* DeflateStream::build over each input stream assembled from the menu M.
InitFrom(M) ==
  \E n \in 1..MaxBlocks : \E bs \in [1..n -> M] :
  \E f \in 0..n : \E c \in 0..MaxCut :
    /\ stream = [blocks |-> bs, finalAt |-> f, cut |-> c]
    /\ compressed = Compress(bs, f, c)
    /\ overflow_checks \in BOOLEAN
    /\ decompressed = <<>>
    /\ idx = 0
    /\ finished = FALSE
    /\ pc = "idle"
    /\ calls = 0
    /\ result = "None"
    /\ ret = <<>>
    /\ output = <<>>
    /\ hlit = 0
    /\ hdist = 0
    /\ code_length_map = {}
    /\ code_lengths = <<>>
    /\ code_buf = CodeNew
    /\ ll = {}
    /\ dist = {}
    /\ length = 0
    /\ hdrs = <<>>
    /\ ranOut = FALSE
    /\ lastStore = NoStore
    /\ lastCopy = NoCopy
    /\ lastSym = NoSym
    /\ returns = <<>>
    /\ UnitsIdle

Init == InitFrom(Menu)

\* ------------------------------------------------------------- decompress
\* A caller invokes decompress on the stream.
Call ==
  /\ pc = "idle"
  /\ calls < MaxCalls
  /\ calls' = calls + 1
  /\ pc' = "loop"
  /\ result' = "None"
  /\ ret' = <<>>
  /\ returns' = IF calls = 0 THEN returns
                ELSE Append(returns, [result |-> result, ret |-> ret, idx |-> idx,
                                      decompressed |-> decompressed])
  /\ UNCHANGED <<units, fields, output, dynlocals, history>>

\* while !self.finished is left: Ok(self.decompressed.clone()).
Return ==
  /\ pc = "loop"
  /\ finished
  /\ pc' = "idle"
  /\ result' = "Ok"
  /\ ret' = decompressed
  /\ UNCHANGED <<units, returns, fields, calls, output, dynlocals, history>>

\* Dispatch with BTYPE assembled MSB-first: fixed and dynamic change places.
DispatchMsbFirst(h1, h2) ==
  IF h1 = 0 /\ h2 = 0 THEN "store"
  ELSE IF h1 = 0 /\ h2 = 1 THEN "fixed"
  ELSE IF h1 = 1 /\ h2 = 0 THEN "dynamic"
  ELSE "invalid"

\* match (header[1], header[2]).
Dispatch(h1, h2) ==
  IF h1 = 0 /\ h2 = 0 THEN "store"
  ELSE IF h1 = 1 /\ h2 = 0 THEN "fixed"
  ELSE IF h1 = 0 /\ h2 = 1 THEN "dynamic"
  ELSE "invalid"

\* matches!(header[0], 1).
IsFinal(h0) == h0 = 1

\* One turn of the loop up to the call of store, fixed or dynamic: header[k]
\* panics when take(3) yielded fewer than k + 1 bits.
ReadHeader ==
  /\ pc = "loop"
  /\ ~finished
  /\ \E header \in {Take(compressed, idx, 3)} :
     \E to \in {IF Len(header) < 3 THEN "panic" ELSE Dispatch(header[2], header[3])} :
        /\ idx' = Advance(compressed, idx, 3)
        /\ finished' = IF Len(header) = 0 THEN finished ELSE IsFinal(header[1])
        /\ pc' = IF to = "panic" THEN "panicked"
                 ELSE IF to = "invalid" THEN "idle" ELSE to
        /\ result' = IF to = "panic" THEN "Panic"
                     ELSE IF to = "invalid" THEN "InvalidBlock" ELSE result
        /\ hdrs' = Append(hdrs, [pos |-> idx, bits |-> header, to |-> to,
                                 produced |-> Len(decompressed),
                                 call |-> calls])
        /\ ranOut' = (ranOut \/ Len(header) < 3)
  /\ UNCHANGED <<units, returns, given, decompressed, calls, ret, output, dynlocals,
                 stream, lastStore, lastCopy, lastSym>>

\* ------------------------------------------------------------------ store
\* store() from cursor i: skip(5), LEN, NLEN, the check, and the slice
\* compressed[byte_idx..len + byte_idx], which panics past the buffer's end.
\* The cursor stays where the read of NLEN left it.
StoreRun(buf, i) ==
  LET i1 == Advance(buf, i, 5)
      i2 == Advance(buf, i1, 16)
      i3 == Advance(buf, i2, 16)
      len == ReverseBits(Fold(Take(buf, i1, 16), 16), 16)
      nlen == ReverseBits(Fold(Take(buf, i2, 16), 16), 16)
      byte_idx == i3 \div 8
      outcome == IF len # 65535 - nlen THEN "invalid"
                 ELSE IF len + byte_idx > Len(buf) THEN "panic" ELSE "ok"
  IN [valid |-> TRUE, hdrEnd |-> i, outcome |-> outcome, len |-> len,
      byte_idx |-> byte_idx,
      copied |-> IF outcome = "ok" THEN SubSeq(buf, byte_idx + 1, byte_idx + len)
                 ELSE <<>>,
      idxAfter |-> i3]

Store ==
  /\ pc = "store"
  /\ \E r \in {StoreRun(compressed, idx)} :
        /\ idx' = r.idxAfter
        /\ decompressed' = decompressed \o r.copied
        /\ pc' = IF r.outcome = "ok" THEN "loop"
                 ELSE IF r.outcome = "invalid" THEN "idle" ELSE "panicked"
        /\ result' = IF r.outcome = "ok" THEN result
                     ELSE IF r.outcome = "invalid" THEN "InvalidBlock" ELSE "Panic"
        /\ lastStore' = r
        /\ ranOut' = (ranOut \/ idx + 37 > BitLen(compressed))
  /\ UNCHANGED <<units, returns, given, finished, calls, ret, output, dynlocals,
                 stream, hdrs, lastCopy, lastSym>>

\* ------------------------------------------------------- the symbol loops
\* LENGTH_BASE[value - 257] plus its extra bits, read from cursor i.
ReadLength(buf, i, value) ==
  LET len_extra == LENGTH_EXTRA_BITS[value - 256]
      additional_length ==
        IF len_extra > 0 THEN ReadField(Take(buf, i, len_extra), 16, len_extra) ELSE 0
  IN [length |-> LENGTH_BASE[value - 256] + additional_length,
      idx |-> Advance(buf, i, len_extra),
      short |-> i + len_extra > BitLen(buf)]

\* DISTANCE_BASE[d] plus its extra bits, read from cursor i; indexing the
\* 30-entry tables with d >= 30 panics.
ReadDistance(buf, i, d) ==
  IF d >= 30 THEN [panic |-> TRUE, distance |-> 0, idx |-> i, short |-> FALSE]
  ELSE LET dist_extra == DISTANCE_EXTRA_BITS[d + 1]
           additional_distance ==
             IF dist_extra > 0 THEN ReadField(Take(buf, i, dist_extra), 16, dist_extra)
             ELSE 0
       IN [panic |-> FALSE, distance |-> DISTANCE_BASE[d + 1] + additional_distance,
           idx |-> Advance(buf, i, dist_extra),
           short |-> i + dist_extra > BitLen(buf)]

\* for idx in start_idx..end_idx { output.push(output[idx]) }
RECURSIVE CopyLoop(_, _, _)
CopyLoop(out, start_idx, end_idx) ==
  IF start_idx >= end_idx THEN out
  ELSE CopyLoop(Append(out, out[start_idx + 1]), start_idx + 1, end_idx)

\* BackRef copying from the output as it was before the copy began (a slice
\* copy): bytes written by the copy are not read back.
BackRefSlice(out, len, distance) ==
  IF distance <= Len(out)
  THEN [outcome |-> "copy",
        output |-> out \o SubSeq(out, Len(out) - distance + 1,
                                 Min(Len(out) - distance + len, Len(out)))]
  ELSE [outcome |-> "panic", output |-> out]

\* let start_idx = output.len() - distance; let end_idx = start_idx + length;
\* and the copy.  With distance > output.len() the subtraction overflows: a
\* build with overflow checks panics there; a build without them wraps
\* start_idx to 2^64 - (distance - output.len()), and then end_idx either wraps
\* below start_idx (the range is empty, nothing is copied) or output[start_idx]
\* panics.
BackRef(out, len, distance) ==
  IF distance <= Len(out)
  THEN [outcome |-> "copy",
        output |-> CopyLoop(out, Len(out) - distance, Len(out) - distance + len)]
  ELSE IF overflow_checks \/ len < distance - Len(out)
  THEN [outcome |-> "panic", output |-> out]
  ELSE [outcome |-> "skip", output |-> out]

\* fixed(): else if let 257..=285 = value.
FixedIsLength(value) == value >= 257 /\ value <= 285

\* dynamic(): else if let 257..285 = symbol.
DynamicIsLength(symbol) == symbol >= 257 /\ symbol < 285

\* What a loop does with a decoded symbol (None: the reader is exhausted).
SymbolKind(value, isLength) ==
  IF value = None THEN "exhausted"
  ELSE IF value < 256 THEN "literal"
  ELSE IF isLength THEN "backref"
  ELSE IF value = 256 THEN "end"
  ELSE "ignored"

\* ------------------------------------------------------------------ fixed
\* One symbol of fixed(): the result of decoding from cursor i with the
\* block's output out.
FixedSymbol(buf, i, out) ==
  LET d == DecodeFrom(FixedCodeMap, buf, i, CodeNew)
      kind == SymbolKind(d.sym, FixedIsLength(d.sym))
      base == [kind |-> kind, sym |-> d.sym, idx |-> d.idx, output |-> out,
               short |-> kind = "exhausted", len |-> 0, distance |-> 0,
               outcome |-> "none", table |-> {}, codeAt |-> 0, codeEnd |-> 0,
               dsym |-> 0]
  IN IF kind = "literal" THEN [base EXCEPT !.output = Append(out, d.sym)]
     ELSE IF kind = "backref"
     THEN LET l == ReadLength(buf, d.idx, d.sym)
              dcode == Fold(Take(buf, l.idx, 5), 16)
              i2 == Advance(buf, l.idx, 5)
              ds == ReadDistance(buf, i2, dcode)
              short == l.short \/ l.idx + 5 > BitLen(buf) \/ ds.short
              r == BackRef(out, l.length, ds.distance)
          IN IF ds.panic
             THEN [base EXCEPT !.idx = i2, !.short = short, !.outcome = "panic"]
             ELSE [base EXCEPT !.idx = ds.idx, !.short = short, !.len = l.length,
                               !.distance = ds.distance, !.outcome = r.outcome,
                               !.output = r.output]
     ELSE base

\* The history of a symbol and of a back-reference.
SymSeen(in, r) ==
  [valid |-> TRUE, in |-> in, sym |-> r.sym, as |-> r.kind, idx |-> r.idx]

\* table, codeAt, codeEnd and dsym are the distance code of a dynamic block:
\* the map it was looked up in, the bit its code starts at, the bit after the
\* bits taken for it, and the symbol found.
CopySeen(in, window, out, r) ==
  [valid |-> TRUE, in |-> in, window |-> window, before |-> out, length |-> r.len,
   table |-> r.table, codeAt |-> r.codeAt, codeEnd |-> r.codeEnd, dsym |-> r.dsym,
   distance |-> r.distance, after |-> r.output, outcome |-> r.outcome]

\* One turn of the while loop of fixed() that decodes a symbol, or leaves the
\* loop; on leaving, the block's output is pushed onto decompressed.
FixedStep ==
  /\ pc = "fixed"
  /\ \E r \in {FixedSymbol(compressed, idx, output)} :
     \E leave \in {r.kind \in {"end", "exhausted"}} :
        /\ idx' = r.idx
        /\ output' = IF leave THEN <<>> ELSE r.output
        /\ decompressed' = IF leave THEN decompressed \o r.output ELSE decompressed
        /\ pc' = IF r.outcome = "panic" THEN "panicked"
                 ELSE IF leave THEN "loop" ELSE "fixed"
        /\ result' = IF r.outcome = "panic" THEN "Panic" ELSE result
        /\ ranOut' = (ranOut \/ r.short)
        /\ lastSym' = IF r.kind = "exhausted" THEN lastSym ELSE SymSeen("fixed", r)
        /\ lastCopy' = IF r.kind = "backref" /\ r.len > 0
                       THEN CopySeen("fixed", decompressed, output, r)
                       ELSE lastCopy
  /\ UNCHANGED <<units, returns, given, finished, calls, ret, dynlocals, stream, hdrs, lastStore>>

\* ---------------------------------------------------------------- dynamic
Reverse(q) == [i \in 1..Len(q) |-> q[Len(q) + 1 - i]]

\* The order in which the code-length code lengths are stored:
\* cl_lengths_sorted[ORDER[k]] = cl_lengths[k].
ORDER == <<16, 17, 18, 0, 8, 7, 9, 6, 10, 5, 11, 4, 12, 3, 13, 2, 14, 1, 15>>

\* cl_len_vec.chunks(3), each folded from its last bit to its first, placed
\* by the match on i.
ClLengthsSorted(cl_len_vec) ==
  LET chunk(k) == SubSeq(cl_len_vec, 3 * k - 2, Min(3 * k, Len(cl_len_vec)))
      cl_lengths == [k \in 1..19 |->
                       IF 3 * (k - 1) < Len(cl_len_vec)
                       THEN Fold(Reverse(chunk(k)), 8) ELSE 0]
  IN [s \in 1..19 |-> cl_lengths[CHOOSE k \in 1..19 : ORDER[k] = s - 1]] \o <<>>

\* dynamic() up to the code-length loop: HLIT, HDIST, HCLEN and the
\* code-length code lengths.
DynamicHeader(buf, i) ==
  LET i1 == Advance(buf, i, 5)
      i2 == Advance(buf, i1, 5)
      i3 == Advance(buf, i2, 4)
      hclen == ReadField(Take(buf, i2, 4), 8, 4)
      n == (hclen + 4) * 3
  IN [hlit |-> ReadField(Take(buf, i, 5), 16, 5),
      hdist |-> ReadField(Take(buf, i1, 5), 8, 5),
      cl_lengths_sorted |-> ClLengthsSorted(Take(buf, i3, n)),
      idx |-> Advance(buf, i3, n),
      short |-> i3 + n > BitLen(buf)]

DynHeader ==
  /\ pc = "dynamic"
  /\ \E h \in {DynamicHeader(compressed, idx)} :
        /\ idx' = h.idx
        /\ hlit' = h.hlit
        /\ hdist' = h.hdist
        /\ code_length_map' = from_lengths(h.cl_lengths_sorted)
        /\ ranOut' = (ranOut \/ h.short)
  /\ code_lengths' = <<>>
  /\ code_buf' = CodeNew
  /\ pc' = "dyn_cl"
  /\ UNCHANGED <<units, returns, given, decompressed, finished, calls, result, ret, output,
                 ll, dist, length, stream, hdrs, lastStore, lastCopy, lastSym>>

\* hlit as usize + 257 + hdist as usize + 1
TotalLengths == hlit + 257 + hdist + 1

Repeat(v, n) == [k \in 1..n |-> v]

\* The turns of the code-length loop up to the next decoded symbol, from
\* cursor i with the code cb and the lengths cls.  Once the reader is
\* exhausted a turn changes nothing: the loop's condition stays true.
\* Symbol 16 with no length emitted yet panics in last().unwrap().
CodeLengthSymbol(buf, i, cb, cls, map) ==
  LET d == DecodeFrom(map, buf, i, cb)
      symbol == d.sym
      number_of_extra == IF symbol = 16 THEN 2 ELSE IF symbol = 17 THEN 3 ELSE 7
      base == IF symbol = 18 THEN 11 ELSE 3
      extra_bits == ReadField(Take(buf, d.idx, number_of_extra), 8, number_of_extra)
      keep == [idx |-> d.idx, code_buf |-> d.code, code_lengths |-> cls,
               panic |-> FALSE, short |-> symbol = None]
      more == [keep EXCEPT !.idx = Advance(buf, d.idx, number_of_extra),
                           !.short = d.idx + number_of_extra > BitLen(buf)]
  IN IF symbol = None THEN keep
     ELSE IF symbol < 16 THEN [keep EXCEPT !.code_lengths = Append(cls, symbol)]
     ELSE IF symbol = 16
     THEN IF cls = <<>> THEN [more EXCEPT !.panic = TRUE]
          ELSE [more EXCEPT !.code_lengths =
                              cls \o Repeat(cls[Len(cls)], base + extra_bits)]
     ELSE [more EXCEPT !.code_lengths = cls \o Repeat(0, base + extra_bits)]

DynCodeLength ==
  /\ pc = "dyn_cl"
  /\ Len(code_lengths) < TotalLengths
  /\ \E r \in {CodeLengthSymbol(compressed, idx, code_buf, code_lengths, code_length_map)} :
        /\ idx' = r.idx
        /\ code_buf' = r.code_buf
        /\ code_lengths' = r.code_lengths
        /\ pc' = IF r.panic THEN "panicked" ELSE "dyn_cl"
        /\ result' = IF r.panic THEN "Panic" ELSE result
        /\ ranOut' = (ranOut \/ r.short)
  /\ UNCHANGED <<units, returns, given, decompressed, finished, calls, ret, output, hlit, hdist,
                 code_length_map, ll, dist, length, stream, hdrs, lastStore,
                 lastCopy, lastSym>>

\* The two maps, once the code-length loop is left.
DynTables ==
  /\ pc = "dyn_cl"
  /\ Len(code_lengths) >= TotalLengths
  /\ \E ll_lengths \in {SubSeq(code_lengths, 1, hlit + 257)} :
       ll' = from_lengths(ll_lengths)
  /\ \E dist_lengths \in {SubSeq(code_lengths, hlit + 258, Len(code_lengths))} :
       dist' = from_lengths(dist_lengths)
  /\ output' = <<>>
  /\ pc' = "dyn_sym"
  /\ UNCHANGED <<units, returns, fields, calls, result, ret, hlit, hdist, code_length_map,
                 code_lengths, code_buf, length, history>>

\* One symbol of the while loop of dynamic(), up to the distance loop.
DynamicSymbol(buf, i, out, map) ==
  LET d == DecodeFrom(map, buf, i, CodeNew)
      kind == SymbolKind(d.sym, DynamicIsLength(d.sym))
      base == [kind |-> kind, sym |-> d.sym, idx |-> d.idx, output |-> out,
               short |-> kind = "exhausted", len |-> 0]
  IN IF kind = "literal" THEN [base EXCEPT !.output = Append(out, d.sym)]
     ELSE IF kind = "backref"
     THEN LET l == ReadLength(buf, d.idx, d.sym)
          IN [base EXCEPT !.idx = l.idx, !.short = l.short, !.len = l.length]
     ELSE base

DynSymbol ==
  /\ pc = "dyn_sym"
  /\ \E r \in {DynamicSymbol(compressed, idx, output, ll)} :
     \E leave \in {r.kind \in {"end", "exhausted"}} :
        /\ idx' = r.idx
        /\ output' = IF leave THEN <<>> ELSE r.output
        /\ decompressed' = IF leave THEN decompressed \o r.output ELSE decompressed
        /\ length' = IF r.kind = "backref" THEN r.len ELSE length
        /\ pc' = IF leave THEN "loop"
                 ELSE IF r.kind = "backref" THEN "dyn_dist" ELSE "dyn_sym"
        /\ ranOut' = (ranOut \/ r.short)
        /\ lastSym' = IF r.kind = "exhausted" THEN lastSym ELSE SymSeen("dynamic", r)
  /\ UNCHANGED <<units, returns, given, finished, calls, result, ret, hlit, hdist,
                 code_length_map, code_lengths, code_buf, ll, dist, stream, hdrs,
                 lastStore, lastCopy>>

\* One turn of the distance loop: dist_buf is a new Code in every turn, so it
\* holds the one bit just read.  With the reader exhausted a turn changes
\* nothing and the loop goes on.  A match leaves the loop: the extra bits and
\* the copy follow in the same step.
DistanceTurn(buf, i, out, len, map) ==
  IF i >= BitLen(buf)
  THEN [found |-> FALSE, idx |-> i, output |-> out, short |-> TRUE, len |-> len,
        distance |-> 0, outcome |-> "none", table |-> map, codeAt |-> i,
        codeEnd |-> i, dsym |-> None]
  ELSE LET dist_buf == push_bit(CodeNew, BitAt(buf, i))
           d == MapGet(map, dist_buf)
           miss == [found |-> FALSE, idx |-> i + 1, output |-> out, short |-> FALSE,
                    len |-> len, distance |-> 0, outcome |-> "none",
                    table |-> map, codeAt |-> i, codeEnd |-> i + 1, dsym |-> d]
       IN IF d = None THEN miss
          ELSE LET ds == ReadDistance(buf, i + 1, d)
                   r == BackRef(out, len, ds.distance)
               IN IF ds.panic
                  THEN [miss EXCEPT !.found = TRUE, !.outcome = "panic"]
                  ELSE [miss EXCEPT !.found = TRUE, !.idx = ds.idx,
                                    !.short = ds.short, !.distance = ds.distance,
                                    !.outcome = r.outcome, !.output = r.output]

DynDistance ==
  /\ pc = "dyn_dist"
  /\ \E r \in {DistanceTurn(compressed, idx, output, length, dist)} :
        /\ idx' = r.idx
        /\ output' = r.output
        /\ pc' = IF r.outcome = "panic" THEN "panicked"
                 ELSE IF r.found THEN "dyn_sym" ELSE "dyn_dist"
        /\ result' = IF r.outcome = "panic" THEN "Panic" ELSE result
        /\ ranOut' = (ranOut \/ r.short)
        /\ lastCopy' = IF r.found /\ r.distance > 0
                       THEN CopySeen("dynamic", decompressed, output,
                                     [r EXCEPT !.codeAt = lastSym.idx])
                       ELSE lastCopy
  /\ UNCHANGED <<units, returns, given, decompressed, finished, calls, ret, dynlocals, stream,
                 hdrs, lastStore, lastSym>>

\* ---------------------------------------------------------- specification
Next ==
  \/ Call
  \/ Return
  \/ ReadHeader
  \/ Store
  \/ FixedStep
  \/ DynHeader
  \/ DynCodeLength
  \/ DynTables
  \/ DynSymbol
  \/ DynDistance

Spec == Init /\ [][Next]_vars

\* The same decoder over the streams of EdgeMenu.
EdgeSpec == InitFrom(EdgeMenu) /\ [][Next]_vars

\* ------------------------------------------------- from_lengths taken alone
\* The length vectors: one entry per symbol (the decoder never passes an
\* empty slice: the code-length vector has 19 entries, the literal/length
\* vector HLIT + 257 and the distance vector at least HDIST + 1).
LengthVectors ==
  UNION {[1..n -> 0..MaxCodeLen] : n \in 1..MaxSyms}

PrefixInit ==
  /\ prefix_lengths \in LengthVectors
  /\ prefix_map = NoMap
  /\ PngIdle
  /\ FieldIdle
  /\ NoInflater

\* let map = PrefixCodeMap::from_lengths(&prefix_lengths);
FromLengths ==
  /\ prefix_map = NoMap
  /\ prefix_map' = [built |-> TRUE, map |-> from_lengths(prefix_lengths)]
  /\ UNCHANGED <<inflater, png, field, prefix_lengths>>

PrefixNext == FromLengths

PrefixSpec == PrefixInit /\ [][PrefixNext]_vars

\* ---------------------------------------------- a bit field taken alone
\* The fields the inflater reads with fold(..).reverse_bits() >> (W - N), as
\* <<W, N>>: HLIT, HDIST and HCLEN, the extra bits of the length and distance
\* symbols, the extra bits of the code-length symbols 16, 17 and 18, and LEN
\* and NLEN, whose 16 bits fill the accumulator so that nothing is shifted.
FieldWidths ==
  {<<16, 5>>, <<8, 5>>, <<8, 4>>, <<8, 2>>, <<8, 3>>, <<8, 7>>, <<16, 16>>}
  \cup {<<16, LENGTH_EXTRA_BITS[k]>> : k \in {j \in 1..29 : LENGTH_EXTRA_BITS[j] > 0}}
  \cup {<<16, DISTANCE_EXTRA_BITS[k]>> : k \in {j \in 1..30 : DISTANCE_EXTRA_BITS[j] > 0}}

\* Every sequence of N bits for every field.
FieldInit ==
  /\ \E f \in FieldWidths :
        /\ field_W = f[1]
        /\ field_bits \in [1..f[2] -> {0, 1}]
  /\ field_value = None
  /\ PrefixIdle
  /\ PngIdle
  /\ NoInflater

\* let value = bits.fold(0uW, |acc, bit| (acc << 1) | bit).reverse_bits() >> (W - N);
ReadBits ==
  /\ field_value = None
  /\ field_value' = ReadField(field_bits, field_W, Len(field_bits))
  /\ UNCHANGED <<inflater, prefix, png, field_bits, field_W>>

FieldNext == ReadBits

FieldSpec == FieldInit /\ [][FieldNext]_vars

\* ---------------------------------------------------------------- Png::rgb
\* The defilters return [panic, buf]: buf is the row reconstructed, panic an
\* arithmetic overflow or an index out of range on the way.

\* x.wrapping_add(y) of u8.
wrapping_add(x, y) == (x + y) % 256

RECURSIVE SubFrom(_, _, _)
SubFrom(scanline, bpp_, buf) ==
  IF Len(buf) = Len(scanline) THEN buf
  ELSE LET i == Len(buf)
           left == IF i >= bpp_ THEN buf[i - bpp_ + 1] ELSE 0
       IN SubFrom(scanline, bpp_, Append(buf, wrapping_add(scanline[i + 1], left)))

rfsub(scanline, bpp_) == [panic |-> FALSE, buf |-> SubFrom(scanline, bpp_, <<>>)]

rfup(scanline, last_) ==
  [panic |-> Len(scanline) > Len(last_),
   buf |-> [i \in 1..Min(Len(scanline), Len(last_)) |->
              wrapping_add(scanline[i], last_[i])]]

\* left + above is an addition of two u8: beyond 255 it panics in a build
\* with overflow checks and wraps in one without.
rfaverage(scanline, last_, bpp_, checks) ==
  LET n == Min(Len(scanline), Len(last_))
      left(i) == IF i - 1 >= bpp_ THEN scanline[i - bpp_] ELSE 0
      above(i) == last_[i]
  IN [panic |-> \/ Len(scanline) > Len(last_)
                \/ checks /\ \E i \in 1..n : left(i) + above(i) > 255,
      buf |-> [i \in 1..n |->
                 wrapping_add(scanline[i], ((left(i) + above(i)) % 256) \div 2)]]

Abs(x) == IF x < 0 THEN -x ELSE x

\* fpaeth with p computed in u8, wrapping, where the source widens to i16.
fpaeth_u8(left, above, upper_left) ==
  LET p == (left + above - upper_left) % 256
      pa == Abs(p - left)
      pb == Abs(p - above)
      pc_ == Abs(p - upper_left)
  IN IF pa <= pb /\ pa <= pc_ THEN left
     ELSE IF pb <= pc_ THEN above
     ELSE upper_left

fpaeth(left, above, upper_left) ==
  LET p == (left + above) - upper_left
      pa == Abs(p - left)
      pb == Abs(p - above)
      pc_ == Abs(p - upper_left)
  IN IF pa <= pb /\ pa <= pc_ THEN left
     ELSE IF pb <= pc_ THEN above
     ELSE upper_left

RECURSIVE PaethFrom(_, _, _, _)
PaethFrom(scanline, last_, bpp_, buf) ==
  IF Len(buf) = Len(scanline) THEN buf
  ELSE LET i == Len(buf)
           left == IF i >= bpp_ THEN buf[i - bpp_ + 1] ELSE 0
           above == last_[i + 1]
           upper_left == IF i >= bpp_ THEN last_[i - bpp_ + 1] ELSE 0
       IN PaethFrom(scanline, last_, bpp_,
                    Append(buf, wrapping_add(scanline[i + 1],
                                             fpaeth(left, above, upper_left))))

rfpaeth(scanline, last_, bpp_) ==
  IF Len(scanline) > Len(last_) THEN [panic |-> TRUE, buf |-> <<>>]
  ELSE [panic |-> FALSE, buf |-> PaethFrom(scanline, last_, bpp_, <<>>)]

\* match scanline[0]: what the arm pushes, if it pushes.
Defilter(filter, scanline, last_, bpp_, checks) ==
  LET r == IF filter = 0 THEN [panic |-> FALSE, buf |-> scanline]
           ELSE IF filter = 1 THEN rfsub(scanline, bpp_)
           ELSE IF filter = 2 THEN rfup(scanline, last_)
           ELSE IF filter = 3 THEN rfaverage(scanline, last_, bpp_, checks)
           ELSE IF filter = 4 THEN rfpaeth(scanline, last_, bpp_)
           ELSE [panic |-> FALSE, buf |-> <<>>]
  IN [panic |-> r.panic, buf |-> r.buf, pushed |-> filter \in 0..4]

\* One turn of `for scanline in scanlines`: the match, then
\* last = defiltered_scanlines.last().unwrap().clone().
Scanline ==
  /\ rgb_pc = "scanlines"
  /\ row < Len(scanlines)
  /\ \E r \in {Defilter(scanlines[row + 1][1], Tail(scanlines[row + 1]), last, bpp,
                        overflow_checks)} :
     \E pushed \in {IF r.pushed /\ ~r.panic
                     THEN Append(defiltered_scanlines, r.buf)
                     ELSE defiltered_scanlines} :
     \E panic \in {r.panic \/ pushed = <<>>} :
        /\ defiltered_scanlines' = pushed
        /\ last' = IF panic THEN last ELSE pushed[Len(pushed)]
        /\ rgb_pc' = IF panic THEN "panicked" ELSE "scanlines"
        /\ lastRow' = [valid |-> TRUE, filter |-> scanlines[row + 1][1],
                       scanline |-> Tail(scanlines[row + 1]), last |-> last,
                       bpp |-> bpp, pushed |-> r.pushed, out |-> r.buf,
                       panic |-> panic]
  /\ row' = row + 1
  /\ UNCHANGED <<inflater, prefix, field, bpp, scanlines, pixels, raw>>

\* The pixels of a line: line.chunks(3) as (values[0], values[1], values[2]).
Triples(line) ==
  [k \in 1..(Len(line) \div 3) |-> <<line[3 * k - 2], line[3 * k - 1], line[3 * k]>>]

\* The loop over defiltered_scanlines, and the return of output.  A line
\* whose length is no multiple of 3 ends in a chunk without values[2] or
\* values[1]: the index panics.
Pixels ==
  /\ rgb_pc = "scanlines"
  /\ row = Len(scanlines)
  /\ IF \E k \in 1..Len(defiltered_scanlines) : Len(defiltered_scanlines[k]) % 3 # 0
     THEN rgb_pc' = "panicked" /\ pixels' = pixels
     ELSE /\ rgb_pc' = "returned"
          /\ pixels' = Flatten([k \in 1..Len(defiltered_scanlines) |->
                                  Triples(defiltered_scanlines[k])])
  /\ UNCHANGED <<inflater, prefix, field, bpp, scanlines, row, last, defiltered_scanlines,
                 lastRow, raw>>

RgbNext == Scanline \/ Pixels

\* The byte values of the rows.
Bytes == {0, 1, 3, 255}

\* The filter bytes met: the five filter types and one that is none.
FilterBytes == 0..5

\* let samples = 3 (ColorType::RGB); with a bit depth of 8, bpp = 3.
samples == 3

\* Png::rgb on an RGB image of 8 bits per sample, up to the scanline loop:
\* the inflated data is split into scanlines of samples * width + 1 bytes.
RgbInit ==
  /\ \E width \in 1..MaxWidth : \E n \in 0..MaxRows :
        /\ scanlines \in [1..n -> {<<f>> \o px : f \in FilterBytes,
                                      px \in [1..(samples * width) -> {1, 255}]}]
        /\ last = Zeros(samples * width)
  /\ bpp = samples
  /\ row = 0
  /\ defiltered_scanlines = <<>>
  /\ rgb_pc = "scanlines"
  /\ pixels = <<>>
  /\ lastRow = NoRow
  /\ raw = <<>>
  /\ PrefixIdle
  /\ FieldIdle
  /\ NoInflater

RgbSpec == RgbInit /\ [][RgbNext]_vars

\* PaethPredictor of the PNG specification: of a, b, c the one nearest to
\* p = a + b - c, the first of them in the order a, b, c when several are.
PaethPredictor(a, b, c) ==
  LET p == a + b - c
      nearest == Min(Abs(p - a), Min(Abs(p - b), Abs(p - c)))
  IN IF Abs(p - a) = nearest THEN a
     ELSE IF Abs(p - b) = nearest THEN b
     ELSE c

\* The forward Paeth filter of an encoder:
\* filt[i] = raw[i] - PaethPredictor(raw[i - bpp], prior[i], prior[i - bpp]) mod 256.
ForwardPaeth(unfiltered, prior, bpp_) ==
  [i \in 1..Len(unfiltered) |->
     (256 + unfiltered[i]
      - PaethPredictor(IF i - 1 >= bpp_ THEN unfiltered[i - bpp_] ELSE 0,
                       prior[i],
                       IF i - 1 >= bpp_ THEN prior[i - bpp_] ELSE 0)) % 256]

\* The scanline loop of a grayscale image after a first row of filter type 0,
\* whose bytes are the prior row of the second: an Average row of any bytes,
\* or the Paeth row an encoder makes of the bytes raw.
FilterInit ==
  /\ \E w \in 1..MaxRow : \E prior \in [1..w -> Bytes] : \E second \in [1..w -> Bytes] :
     \E f \in {3, 4} : \E b \in 1..MaxBpp :
        /\ bpp = b
        /\ last = prior
        /\ defiltered_scanlines = <<prior>>
        /\ raw = IF f = 4 THEN second ELSE <<>>
        /\ scanlines = << <<0>> \o prior,
                          <<f>> \o (IF f = 4 THEN ForwardPaeth(second, prior, b)
                                    ELSE second) >>
  /\ row = 1
  /\ rgb_pc = "scanlines"
  /\ pixels = <<>>
  /\ lastRow = NoRow
  /\ PrefixIdle
  /\ FieldIdle
  /\ NoInflater

FilterSpec == FilterInit /\ [][RgbNext]_vars

\* ------------------------------------------------- the stream, by RFC 1951
\* What the blocks of the input stream mean, for comparison with what
\* decompress does with them.
\* A copy of n bytes from distance bytes back, each byte written before the
\* next is read: the last distance bytes of w, repeated.
RefCopy(w, distance, n) ==
  w \o [i \in 1..n |-> w[Len(w) - distance + 1 + ((i - 1) % distance)]]

\* The output after tokens k.. of a compressed block, w being the output so
\* far; ok is FALSE when the block is not well formed.
RECURSIVE RefTokens(_, _, _)
RefTokens(toks, k, w) ==
  IF k > Len(toks) THEN [ok |-> FALSE, out |-> w]
  ELSE LET t == toks[k]
       IN IF t.k = "eob" THEN [ok |-> k = Len(toks), out |-> w]
          ELSE IF t.k = "lit" THEN RefTokens(toks, k + 1, Append(w, t.sym))
          ELSE IF t.k = "ref"
                  /\ DISTANCE_BASE[t.dsym + 1] + t.dext <= Len(w)
          THEN RefTokens(toks, k + 1,
                         RefCopy(w, DISTANCE_BASE[t.dsym + 1] + t.dext,
                                 LENGTH_BASE[t.sym - 256] + t.lext))
          ELSE [ok |-> FALSE, out |-> w]

\* The output after blocks 1..n of the stream.
RECURSIVE RefInflate(_, _)
RefInflate(blocks, n) ==
  IF n = 0 THEN [ok |-> TRUE, out |-> <<>>]
  ELSE LET before == RefInflate(blocks, n - 1)
           b == blocks[n]
       IN IF ~before.ok \/ b.type = "reserved" THEN [ok |-> FALSE, out |-> before.out]
          ELSE IF b.type = "stored" THEN [ok |-> TRUE, out |-> before.out \o b.data]
          ELSE RefTokens(b.toks, 1, before.out)

\* The bit at which block k of the stream starts, and the bit after it.
BlockStart(k) == Len(StreamBits(stream.blocks, stream.finalAt, k - 1))

BlockEnd(k) == Len(StreamBits(stream.blocks, stream.finalAt, k))

\* The input ends before its final block does.
Truncated ==
  stream.finalAt = 0 \/ BlockEnd(stream.finalAt) > BitLen(compressed)

\* The input holds a well-formed stream up to and including its final block.
StreamValid ==
  /\ ~Truncated
  /\ RefInflate(stream.blocks, stream.finalAt).ok

Expected == RefInflate(stream.blocks, stream.finalAt).out

LastHdr == hdrs[Len(hdrs)]

\* ----------------------------------------------------------------- claims

\* C1: for a stream of blocks B1..Bn with Bn the first block with BFINAL = 1,
\* decompress reads the headers of B1..Bn in stream order, each where the
\* block starts, reads no header after Bn, and returns the concatenation of
\* the blocks' outputs.
C1_BlocksInStreamOrder ==
  (StreamValid /\ calls = 1) =>
    /\ Len(hdrs) <= stream.finalAt
    /\ \A k \in 1..Len(hdrs) : hdrs[k].pos = BlockStart(k)
    /\ (result = "Ok" => ret = Expected)

\* The turn the call is about to take is a turn of the code-length loop or
\* of the distance loop that stays in the loop and leaves the cursor, the
\* code buffer, the lengths and the output as they were.  The code is
\* sequential and deterministic, so the turn after it is the same turn: the
\* call never returns.  (Every other step of decompress moves pc or the
\* cursor.)
TurnChangesNothing ==
  \/ /\ pc = "dyn_cl"
     /\ Len(code_lengths) < TotalLengths
     /\ LET r == CodeLengthSymbol(compressed, idx, code_buf, code_lengths,
                                  code_length_map)
        IN /\ ~r.panic
           /\ r.idx = idx
           /\ r.code_buf = code_buf
           /\ r.code_lengths = code_lengths
  \/ /\ pc = "dyn_dist"
     /\ LET r == DistanceTurn(compressed, idx, output, length, dist)
        IN /\ r.outcome # "panic"
           /\ ~r.found
           /\ r.idx = idx
           /\ r.output = output

\* C2: decompress terminates on every input: once the bit reader is
\* exhausted no loop keeps iterating, that is, the call is never about to
\* take a loop turn that changes nothing.
C2_NoLoopKeepsIterating ==
  (pc \notin {"idle", "panicked"} /\ idx >= BitLen(compressed)) =>
    ~TurnChangesNothing

\* C3: when the input ends before its final block does, decompress does not
\* return Ok.
C3_TruncatedNeverOk ==
  (Truncated /\ calls = 1) => result # "Ok"

\* C4: a stored block whose LEN and NLEN, read at the first byte boundary
\* after its header, are complements appends exactly the LEN bytes after NLEN.
C4_StoredCopiesAlignedBytes ==
  lastStore.valid =>
    LET a == (lastStore.hdrEnd + 7) \div 8
        len == compressed[a + 1] + 256 * compressed[a + 2]
        nlen == compressed[a + 3] + 256 * compressed[a + 4]
    IN (a + 4 <= Len(compressed) /\ nlen = 65535 - len
        /\ a + 4 + len <= Len(compressed))
       => lastStore.copied = SubSeq(compressed, a + 5, a + 4 + len)

\* C5: after a stored block has been copied the cursor stands LEN * 8 bits
\* past the start of the copied bytes.
C5_CursorPastStoredData ==
  (lastStore.valid /\ lastStore.outcome = "ok") =>
    lastStore.idxAfter = 8 * (lastStore.byte_idx + lastStore.len)

\* C6: a header is BFINAL, then BTYPE in two bits LSB-first; BTYPE 0 goes to
\* store, 1 to fixed, 2 to dynamic, and BTYPE 3 returns InvalidBlock with no
\* bit read and no byte produced after the header.
C6_HeaderDispatch ==
  /\ \A k \in 1..Len(hdrs) :
       Len(hdrs[k].bits) = 3 =>
         LET btype == BitAt(compressed, hdrs[k].pos + 1)
                      + 2 * BitAt(compressed, hdrs[k].pos + 2)
         IN hdrs[k].to = (IF btype = 0 THEN "store"
                          ELSE IF btype = 1 THEN "fixed"
                          ELSE IF btype = 2 THEN "dynamic" ELSE "invalid")
  /\ pc \in {"store", "fixed", "dynamic", "dyn_cl", "dyn_sym", "dyn_dist"} =>
       /\ hdrs # <<>>
       /\ Len(LastHdr.bits) = 3
       /\ LastHdr.to = (IF pc \in {"store", "fixed"} THEN pc ELSE "dynamic")
  /\ (hdrs # <<>> /\ Len(LastHdr.bits) = 3) =>
       /\ finished = (BitAt(compressed, LastHdr.pos) = 1)
       /\ (LastHdr.to = "invalid" /\ pc = "idle" /\ LastHdr.call = calls) =>
            /\ result = "InvalidBlock"
            /\ idx = LastHdr.pos + 3
            /\ Len(decompressed) = LastHdr.produced

C6_Witness ==
  /\ Len(hdrs) = 2
  /\ hdrs[1].to = "dynamic"
  /\ hdrs[2].to = "invalid"
  /\ result = "InvalidBlock"
  /\ decompressed # <<>>

\* C7: a back-reference (length, distance) with distance <= output.len()
\* appends length bytes, the i-th of them the byte i mod distance places into
\* the last distance bytes of the output: the bytes a byte-at-a-time copy
\* from output.len() - distance produces.
C7_ByteAtATimeCopy ==
  (lastCopy.valid /\ lastCopy.distance <= Len(lastCopy.before)) =>
    /\ lastCopy.outcome = "copy"
    /\ lastCopy.after = RefCopy(lastCopy.before, lastCopy.distance, lastCopy.length)

C7_Witness ==
  /\ lastCopy.valid
  /\ lastCopy.in = "fixed"
  /\ lastCopy.before = <<97>>
  /\ lastCopy.length = 5
  /\ lastCopy.distance = 1
  /\ lastCopy.after = <<97, 97, 97, 97, 97, 97>>

\* C8: the window of a back-reference is all the output of the stream so far:
\* with distance within the decompressed length the copy starts distance
\* bytes before the end of that output, earlier blocks' bytes included.
C8_WindowIsWholeOutput ==
  (lastCopy.valid
   /\ lastCopy.distance <= Len(lastCopy.window) + Len(lastCopy.before)) =>
    /\ lastCopy.outcome = "copy"
    /\ lastCopy.window \o lastCopy.after =
         RefCopy(lastCopy.window \o lastCopy.before, lastCopy.distance,
                 lastCopy.length)

\* C9: a back-reference whose distance exceeds the output so far makes
\* decompress return a BackRefOutOfRange error.
C9_BackRefOutOfRangeError ==
  (lastCopy.valid
   /\ lastCopy.distance > Len(lastCopy.window) + Len(lastCopy.before)) =>
    result = "BackRefOutOfRange"

\* C10: in the fixed and in the dynamic loop every symbol in 257..285 is a
\* back-reference.
C10_LengthSymbolsAreBackRefs ==
  (lastSym.valid /\ lastSym.sym >= 257 /\ lastSym.sym <= 285) =>
    lastSym.as = "backref"

\* C11: a literal/length symbol above 285 (286 or 287 of the fixed code, or
\* any such symbol of a dynamic code) is fatal: once one has been decoded the
\* call has ended with InvalidSymbol, it has not skipped the symbol.
C11_SymbolsAbove285AreFatal ==
  (lastSym.valid /\ lastSym.sym > 285) => result = "InvalidSymbol"

\* C12: decoding a symbol consumes exactly the bits of its code.  In a dynamic
\* block the distance symbol of a back-reference is the one whose code, of
\* whatever length, starts at the bit after the length's extra bits, read
\* most significant bit first, and its extra bits start right after that code.
\* (Where the bits from there on spell no code of the table, no symbol is
\* there to be recognised.)
C12_DistanceCodeOfAnyLength ==
  (lastCopy.valid /\ lastCopy.in = "dynamic")
    => LET d == DecodeFrom(lastCopy.table, compressed, lastCopy.codeAt, CodeNew)
       IN d.sym # None => (d.sym = lastCopy.dsym /\ d.idx = lastCopy.codeEnd)

\* 2^k times the Kraft sum of the non-zero entries of L, k being the longest
\* length: the sum of 2^(-L[i]) is at most 1 iff this is at most 2^k.
KraftScaled(L) ==
  LET k == SetMax({L[j] : j \in DOMAIN L})
      present == {j \in DOMAIN L : L[j] # 0}
      RECURSIVE Sum(_)
      Sum(S) == IF S = {} THEN 0
                ELSE LET j == CHOOSE x \in S : TRUE
                     IN 2 ^ (k - L[j]) + Sum(S \ {j})
  IN [sum |-> Sum(present), one |-> 2 ^ k]

Kraft(L) == KraftScaled(L).sum <= KraftScaled(L).one

\* C13: for every length vector whose non-zero entries satisfy the Kraft
\* inequality, from_lengths returns a map with exactly one entry per symbol of
\* non-zero length; the entry's code has the symbol's length and fits in that
\* many bits, and no two symbols have the same (code, length).
C13_KraftVectorsGetDistinctCodes ==
  (prefix_map.built /\ Kraft(prefix_lengths))
    => LET L == prefix_lengths
           map == prefix_map.map
           present == {j \in DOMAIN L : L[j] # 0}
       IN /\ {e[3] : e \in map} = {j - 1 : j \in present}
          /\ Cardinality(map) = Cardinality(present)
          /\ \A e \in map : e[2] = L[e[3] + 1] /\ e[1] < 2 ^ e[2]
          /\ \A e, f \in map : (e[1] = f[1] /\ e[2] = f[2]) => e[3] = f[3]

\* from_lengths has run on the complete code 0, 10, 11 with an absent symbol
\* between its symbols.
C13_Witness ==
  /\ prefix_lengths = <<1, 0, 2, 2>>
  /\ prefix_map.built
  /\ prefix_map.map = {<<0, 1, 0>>, <<2, 2, 2>>, <<3, 2, 3>>}

\* C14: for a length vector with exactly one non-zero entry, from_lengths
\* gives that symbol the single-bit code 0 of length 1, whatever the value of
\* the entry.
C14_SingleSymbolGetsOneBitCode ==
  LET L == prefix_lengths
      present == {j \in DOMAIN L : L[j] # 0}
  IN (prefix_map.built /\ Cardinality(present) = 1)
       => prefix_map.map = {<<0, 1, j - 1>> : j \in present}

\* The input is one whole final dynamic block that gives every distance
\* symbol the length 0 and holds literals and the end-of-block symbol only.
OneLiteralBlockWithoutDistances ==
  /\ Len(stream.blocks) = 1
  /\ stream.finalAt = 1
  /\ ~Truncated
  /\ LET b == stream.blocks[1]
     IN /\ b.type = "dynamic_d0"
        /\ b.toks # <<>>
        /\ \A k \in 1..Len(b.toks) :
              b.toks[k].k = (IF k = Len(b.toks) THEN "eob" ELSE "lit")

\* C15: a dynamic block whose distance lengths are all zero does not fail
\* table construction: from_lengths returns an empty distance table.  When
\* the block holds only literals and the end-of-block symbol it decodes to
\* exactly those literals: the call neither fails nor stalls, and it returns
\* them.
C15_AllZeroDistanceLengths ==
  OneLiteralBlockWithoutDistances =>
    /\ result \in {"None", "Ok"}
    /\ pc # "panicked"
    /\ ~TurnChangesNothing
    /\ pc \in {"dyn_sym", "dyn_dist"} =>
         (dist = {} /\ \A j \in (hlit + 258)..Len(code_lengths) : code_lengths[j] = 0)
    /\ pc # "dyn_dist"
    /\ (calls = 1 /\ pc = "idle") => (result = "Ok" /\ ret = Expected)

\* The call has returned the two literals of such a block.
C15_Witness ==
  /\ OneLiteralBlockWithoutDistances
  /\ calls = 1
  /\ pc = "idle"
  /\ result = "Ok"
  /\ ret = <<65, 65>>
  /\ dist = {}
  /\ hdist = 0

\* The code-length loop of the dynamic block under way has decoded its first
\* symbol, and that symbol, the first code after the HCLEN + 4 lengths of the
\* code-length code, is 16: a repeat with no length emitted before it.
FirstLengthIsRepeat ==
  /\ hdrs # <<>>
  /\ LastHdr.to = "dynamic"
  /\ LastHdr.call = calls
  /\ pc \notin {"dynamic", "loop"}
  /\ LET h == DynamicHeader(compressed, LastHdr.pos + 3)
     IN /\ ~h.short
        /\ DecodeFrom(from_lengths(h.cl_lengths_sorted), compressed, h.idx,
                      CodeNew).sym = 16
        /\ ~(pc = "dyn_cl" /\ idx = h.idx /\ code_lengths = <<>>)

\* C16: code-length symbol 16 decoded when no length has been emitted yet
\* makes decompress return an InvalidSymbol error: it neither panics nor
\* goes on with an invented length.
C16_RepeatWithoutPreviousLength ==
  FirstLengthIsRepeat => result = "InvalidSymbol"

\* The Average defilter of the PNG specification: a is the byte already
\* reconstructed bpp places back in this row, b the byte above, and a + b is
\* not reduced modulo 256 before it is halved.
RECURSIVE AverageFrom(_, _, _, _)
AverageFrom(filt, prior, bpp_, recon) ==
  IF Len(recon) = Len(filt) THEN recon
  ELSE LET i == Len(recon) + 1
           a == IF i - 1 >= bpp_ THEN recon[i - bpp_] ELSE 0
           b == prior[i]
       IN AverageFrom(filt, prior, bpp_,
                      Append(recon, (filt[i] + ((a + b) \div 2)) % 256))

\* C17: the Average defilter gives recon[i] = (raw[i] + floor((a + b) / 2))
\* mod 256 for every byte, a being the reconstructed byte recon[i - bpp] of the
\* row (0 when i < bpp), b the prior row's byte, and a + b taken without 8-bit
\* wrap-around, also when a + b >= 256.
C17_AverageDefilter ==
  (lastRow.valid /\ lastRow.filter = 3)
    => /\ ~lastRow.panic
       /\ lastRow.out = AverageFrom(lastRow.scanline, lastRow.last, lastRow.bpp, <<>>)

\* C18: rfpaeth undoes the forward Paeth filter: over the scanline an
\* encoder makes of raw, with the same prior row and bpp, it returns raw.  The
\* predictor it uses picks of a, b, c the one nearest to p = a + b - c, in
\* signed arithmetic, the first in the order a, b, c on a tie.
C18_PaethRoundTrip ==
  (lastRow.valid /\ lastRow.filter = 4 /\ raw # <<>>)
    => /\ ~lastRow.panic
       /\ lastRow.scanline = ForwardPaeth(raw, lastRow.last, lastRow.bpp)
       /\ lastRow.out = raw
       /\ \A a \in Bytes : \A b \in Bytes : \A c \in Bytes :
             fpaeth(a, b, c) = PaethPredictor(a, b, c)

\* rfpaeth has given back a row whose second byte has a = 255, b = 1, c = 0,
\* so that p = 256 lies outside the bytes.
C18_Witness ==
  /\ lastRow.valid
  /\ lastRow.filter = 4
  /\ lastRow.bpp = 1
  /\ lastRow.last = <<0, 1>>
  /\ raw = <<255, 3>>
  /\ lastRow.scanline # raw
  /\ lastRow.out = raw

\* C19: a scanline whose filter byte is none of 0..4 is a fatal error of
\* Png::rgb: once the loop has met one, rgb has stopped; it has not dropped
\* the row and gone on with the previous row as the prior one.
C19_UnknownFilterIsFatal ==
  (lastRow.valid /\ lastRow.filter \notin 0..4) => rgb_pc = "panicked"

\* C20: when decompress fails in a block (reserved BTYPE, or LEN and NLEN of
\* a stored block that do not match) the caller gets the error only: the
\* bytes of the blocks before it are neither returned nor left in the
\* stream's public decompressed buffer.
C20_NoPartialOutputOnFailure ==
  (pc = "idle" /\ result = "InvalidBlock") => (ret = <<>> /\ decompressed = <<>>)

\* The value of a field whose bits arrive least significant bit first: the
\* sum of bit(i) * 2^i.
RECURSIVE LsbFirstValue(_)
LsbFirstValue(bits) ==
  IF bits = <<>> THEN 0 ELSE Head(bits) + 2 * LsbFirstValue(Tail(bits))

\* C21: for every field width N the inflater uses and every sequence of N
\* bits, folding the bits MSB-first into a W-bit accumulator (W = 8 or 16,
\* N <= W), reversing its bits and shifting right by W - N gives the LSB-first
\* value, the sum of bit(i) * 2^i: for HLIT, HDIST, HCLEN, the length and
\* distance extra bits, the code-length repeat extras and LEN/NLEN.
C21_FieldsAreLsbFirst ==
  field_value # None =>
    /\ <<field_W, Len(field_bits)>> \in FieldWidths
    /\ field_value = LsbFirstValue(field_bits)

\* The 13 extra bits of a distance symbol, the lowest and the highest set,
\* have been read as 4097.
C21_Witness ==
  /\ field_W = 16
  /\ field_bits = <<1, 0, 0, 0, 0, 0, 0, 0, 0, 0, 0, 0, 1>>
  /\ field_value = 4097

\* C22: across the calls of decompress on one stream: once a call has
\* returned Ok, a later call reads no bit and appends no output, and it
\* returns the same bytes; once a call has returned an error, no later call
\* returns Ok (a BFINAL = 1 header that set finished before its block failed
\* does not turn the failed stream into a successful one).
C22_RepeatedCalls ==
  returns # <<>> =>
    LET before == returns[Len(returns)]
    IN /\ before.result = "Ok" =>
            /\ idx = before.idx
            /\ decompressed = before.decompressed
            /\ pc = "idle" => (result = "Ok" /\ ret = before.ret)
       /\ (\E k \in 1..Len(returns) : returns[k].result # "Ok") => result # "Ok"

====
